---- MODULE Spec2Model ----
(***************************************************************************)
(* Model of gammapy/spectrum/energy_group.py: SpectrumEnergyGroup (one     *)
(* group of fine energy bins), SpectrumEnergyGroups (a list of groups with *)
(* table conversions and lookup by energy) and SpectrumEnergyGroupMaker    *)
(* (groupings computed from an observation's fine binning).                *)
(*                                                                         *)
(* Energies are integers counted in half-MeV steps, so that the 1 MeV      *)
(* offset of compute_groups_fixed is two steps and boundaries can fall     *)
(* closer than 1 MeV to a fine-bin edge.  Python sequences are 0-based;    *)
(* the model keeps the 0-based bin indices of the code and converts at     *)
(* each access to a TLA+ sequence (PyIndex).                               *)
(***************************************************************************)
EXTENDS Integers, Sequences, FiniteSets, TLC

\* obs    : the observation's fine binning (maker.obs.e_reco), read-only
\* groups : maker.groups; the empty sequence stands for None, which no
\*          grouping operation stores (every grouping has a group)
\* self   : the SpectrumEnergyGroups list the list operations are called on
\* call   : the operation called last, with its arguments and locals
\* ret    : what that call returned or raised
\* table  : the table in the caller's hands (a to_*_table result or its own)
VARIABLES obs, groups, self, table, call, ret

vars == <<obs, groups, self, table, call, ret>>

(***************************************************************************)
(* Bounds of the model.                                                    *)
(***************************************************************************)
\* Energies of the enumerated fine binnings and boundaries are 0..MaxEnergy.
MaxEnergy == 5
\* The enumerated observations have 1..MaxBins fine bins.
MaxBins == 3
\* compute_groups_fixed is called with 2..MaxBounds boundaries.
MaxBounds == 3
\* A SpectrumEnergyGroups list under test holds 0..MaxGroups groups.
MaxGroups == 2
\* energy_group_idx of a group or table row under test is 0..MaxGroupIdx.
MaxGroupIdx == 1
\* bin_idx_min and bin_idx_max of a group under test are 0..MaxBinIdx.
MaxBinIdx == 1
\* A caller-supplied total table has 0..MaxRows rows.
MaxRows == 3

(***************************************************************************)
(* Units.                                                                  *)
(***************************************************************************)
\* 1 * u.MeV, in half-MeV steps.
MeV == 2
\* 1 * u.TeV, in half-MeV steps.
TeV == 2000000

(***************************************************************************)
(* Python helpers.                                                         *)
(***************************************************************************)
\* seq[i] with Python's 0-based index, a negative index counting from the end.
PyIndex(seq, i) == IF i >= 0 THEN seq[i + 1] ELSE seq[Len(seq) + i + 1]

\* A sequence given by a rule per position, as the stored list or array.
Array(f) == f \o <<>>

\* What a call hands back: a returned value or a raised exception.
Return(v) == [raised |-> "", value |-> v]
Raise(exc, msg) == [raised |-> exc, message |-> msg]
NoCall == [op |-> "none"]
NoReturn == [raised |-> "", value |-> <<>>]

(***************************************************************************)
(* SpectrumEnergyGroup                                                     *)
(***************************************************************************)
fields == <<"energy_group_idx", "bin_idx_min", "bin_idx_max",
            "bin_type", "energy_min", "energy_max">>

valid_bin_types == {"normal", "underflow", "overflow"}

\* The constructor without the check of bin_type.
SpectrumEnergyGroupUnchecked(energy_group_idx, bin_idx_min, bin_idx_max, bin_type, energy_min, energy_max) ==
    Return([energy_group_idx |-> energy_group_idx,
            bin_idx_min |-> bin_idx_min,
            bin_idx_max |-> bin_idx_max,
            bin_type |-> bin_type,
            energy_min |-> energy_min,
            energy_max |-> energy_max])

\* SpectrumEnergyGroup.__init__: the new object, or ValueError.
SpectrumEnergyGroup(energy_group_idx, bin_idx_min, bin_idx_max, bin_type, energy_min, energy_max) ==
    IF bin_type \notin valid_bin_types
    THEN Raise("ValueError", "Invalid bin type")
    ELSE Return([energy_group_idx |-> energy_group_idx,
                 bin_idx_min |-> bin_idx_min,
                 bin_idx_max |-> bin_idx_max,
                 bin_type |-> bin_type,
                 energy_min |-> energy_min,
                 energy_max |-> energy_max])

\* SpectrumEnergyGroup._data: the (name, value) pairs in the order of fields.
_data(g) == [i \in 1..Len(fields) |-> <<fields[i], g[fields[i]]>>]

\* SpectrumEnergyGroup.to_dict: an OrderedDict, i.e. the ordered pairs.
to_dict(g) == _data(g)

\* data[key] of an ordered dict.
DictGet(data, key) ==
    data[CHOOSE i \in 1..Len(data) : data[i][1] = key][2]

\* from_dict with bin_idx_min and bin_idx_max taken from each other's key.
from_dictSwapped(data) ==
    SpectrumEnergyGroup(DictGet(data, "energy_group_idx"),
                        DictGet(data, "bin_idx_max"),
                        DictGet(data, "bin_idx_min"),
                        DictGet(data, "bin_type"),
                        DictGet(data, "energy_min"),
                        DictGet(data, "energy_max"))

\* SpectrumEnergyGroup.from_dict: picks the declared fields out of data and
\* calls the constructor with them as keywords.
from_dict(data) ==
    SpectrumEnergyGroup(DictGet(data, "energy_group_idx"),
                        DictGet(data, "bin_idx_min"),
                        DictGet(data, "bin_idx_max"),
                        DictGet(data, "bin_type"),
                        DictGet(data, "energy_min"),
                        DictGet(data, "energy_max"))

\* SpectrumEnergyGroup.__eq__
__eq__(a, b) == to_dict(a) = to_dict(b)

\* SpectrumEnergyGroup.bin_idx_array: np.arange(bin_idx_min, bin_idx_max + 1).
bin_idx_array(g) ==
    IF g.bin_idx_max < g.bin_idx_min THEN <<>>
    ELSE [i \in 1..(g.bin_idx_max - g.bin_idx_min + 1) |-> g.bin_idx_min + i - 1]

\* SpectrumEnergyGroup.bin_table: one row per bin of the group, the group's
\* scalars broadcast over the rows.
bin_table(g) ==
    [i \in 1..Len(bin_idx_array(g)) |->
        [bin_idx |-> bin_idx_array(g)[i],
         energy_group_idx |-> g.energy_group_idx,
         bin_type |-> g.bin_type,
         energy_min |-> g.energy_min,
         energy_max |-> g.energy_max]]

\* contains_energy with the upper edge included.
contains_energyClosed(g, energy) ==
    (g.energy_min <= energy) /\ (energy <= g.energy_max)

\* SpectrumEnergyGroup.contains_energy
contains_energy(g, energy) ==
    (g.energy_min <= energy) /\ (energy < g.energy_max)

(***************************************************************************)
(* SpectrumEnergyGroups                                                    *)
(***************************************************************************)
\* np.unique replaced by the distinct values in descending order.
RECURSIVE uniqueDescending(_)
uniqueDescending(S) ==
    IF S = {} THEN <<>>
    ELSE LET m == CHOOSE x \in S : \A y \in S : x >= y
         IN <<m>> \o uniqueDescending(S \ {m})

\* np.unique over a set of integers: the distinct values, ascending.
RECURSIVE unique(_)
unique(S) ==
    IF S = {} THEN <<>>
    ELSE LET m == CHOOSE x \in S : \A y \in S : x <= y
         IN <<m>> \o unique(S \ {m})

\* table[mask] for mask = (table['energy_group_idx'] == energy_group_idx).
MaskRows(t, energy_group_idx) ==
    SelectSeq(t, LAMBDA row : row.energy_group_idx = energy_group_idx)

\* The pass of from_total_table without the check of the bin types.
GroupFromRowsUnchecked(t, energy_group_idx) ==
    LET group_table == MaskRows(t, energy_group_idx)
        last == Len(group_table)
    IN SpectrumEnergyGroup(energy_group_idx,
                           group_table[1].bin_idx,
                           group_table[last].bin_idx,
                           group_table[1].bin_type,
                           group_table[1].energy_min,
                           group_table[last].energy_max)

\* One pass of the loop of from_total_table: the group of one
\* energy_group_idx, or the exception raised while building it.
GroupFromRows(t, energy_group_idx) ==
    LET group_table == MaskRows(t, energy_group_idx)
        last == Len(group_table)
    IN IF Cardinality({group_table[i].bin_type : i \in 1..last}) > 1
       THEN Raise("ValueError", "Inconsistent bin_type within group.")
       ELSE SpectrumEnergyGroup(energy_group_idx,
                                group_table[1].bin_idx,
                                group_table[last].bin_idx,
                                group_table[1].bin_type,
                                group_table[1].energy_min,
                                group_table[last].energy_max)

\* The loop of from_total_table over the remaining energy_group_idx values:
\* appends group after group and stops at the first exception.
RECURSIVE FromTotalLoop(_, _, _)
FromTotalLoop(t, idxs, acc) ==
    IF idxs = <<>> THEN Return(acc)
    ELSE LET r == GroupFromRows(t, Head(idxs))
         IN IF r.raised # "" THEN r
            ELSE FromTotalLoop(t, Tail(idxs), Append(acc, r.value))

\* SpectrumEnergyGroups.from_total_table
from_total_table(t) ==
    FromTotalLoop(t, unique({t[i].energy_group_idx : i \in 1..Len(t)}), <<>>)

\* table_vstack: the rows of the tables one after the other.
RECURSIVE table_vstack(_)
table_vstack(tables) ==
    IF tables = <<>> THEN <<>>
    ELSE Head(tables) \o table_vstack(Tail(tables))

\* SpectrumEnergyGroups.to_total_table
to_total_table(gs) == table_vstack([i \in 1..Len(gs) |-> bin_table(gs[i])])

\* find_list_idx returning the last group that contains the energy.
find_list_idxLast(gs, energy) ==
    IF \E i \in 1..Len(gs) : contains_energy(gs[i], energy)
    THEN Return((CHOOSE i \in 1..Len(gs) :
                    /\ contains_energy(gs[i], energy)
                    /\ \A j \in (i + 1)..Len(gs) : ~contains_energy(gs[j], energy)) - 1)
    ELSE Raise("IndexError", "No group found with energy")

\* SpectrumEnergyGroups.find_list_idx: the 0-based position of the first
\* group that contains the energy, or IndexError.
find_list_idx(gs, energy) ==
    IF \E i \in 1..Len(gs) : contains_energy(gs[i], energy)
    THEN Return((CHOOSE i \in 1..Len(gs) :
                    /\ contains_energy(gs[i], energy)
                    /\ \A j \in 1..(i - 1) : ~contains_energy(gs[j], energy)) - 1)
    ELSE Raise("IndexError", "No group found with energy")

\* gammapy.utils.table.table_from_row_data: one column per key of the first
\* row, holding that key's value of every row.
table_from_row_data(rows) ==
    IF rows = <<>> THEN [colnames |-> <<>>, columns |-> <<>>]
    ELSE [colnames |-> [c \in 1..Len(rows[1]) |-> rows[1][c][1]],
          columns  |-> [c \in 1..Len(rows[1]) |->
                          [r \in 1..Len(rows) |-> DictGet(rows[r], rows[1][c][1])]]]

\* Number of rows of a table built by table_from_row_data.
TableLen(t) == IF t.columns = <<>> THEN 0 ELSE Len(t.columns[1])

\* gammapy.utils.table.table_row_to_dict: the (column name, cell) pairs of
\* one row.
table_row_to_dict(t, r) ==
    [c \in 1..Len(t.colnames) |-> <<t.colnames[c], t.columns[c][r]>>]

\* SpectrumEnergyGroups.to_group_table
to_group_table(gs) ==
    table_from_row_data([i \in 1..Len(gs) |-> to_dict(gs[i])])

\* SpectrumEnergyGroups.from_group_table: one group per row, in row order;
\* an exception of a row's constructor ends the call.
from_group_table(t) ==
    LET made == [r \in 1..TableLen(t) |-> from_dict(table_row_to_dict(t, r))]
    IN IF \E r \in 1..TableLen(t) : made[r].raised # ""
       THEN made[CHOOSE r \in 1..TableLen(t) :
                    /\ made[r].raised # ""
                    /\ \A q \in 1..(r - 1) : made[q].raised = ""]
       ELSE Return([r \in 1..TableLen(t) |-> made[r].value])

(***************************************************************************)
(* SpectrumEnergyGroupMaker                                                *)
(***************************************************************************)
\* np.sign
sign(x) == IF x > 0 THEN 1 ELSE IF x < 0 THEN -1 ELSE 0

\* np.argmin over one row: the 0-based position of the first minimum.
argmin(row) ==
    (CHOOSE j \in 1..Len(row) :
        /\ \A m \in 1..Len(row) : row[j] <= row[m]
        /\ \A m \in 1..(j - 1) : row[m] > row[j]) - 1

\* diff without the 1 MeV offset.
diffNoOffset(ebounds, o) ==
    Array([i \in 1..Len(ebounds) |->
        Array([j \in 1..o.nbins |-> ebounds[i] - o.lower_bounds[j]])])

\* diff of compute_groups_fixed: row i holds, for every fine bin, the
\* boundary i lowered by 1 MeV minus the bin's lower edge.
diff(ebounds, o) ==
    Array([i \in 1..Len(ebounds) |->
        Array([j \in 1..o.nbins |-> (ebounds[i] - MeV) - o.lower_bounds[j]])])

\* lower_indices of compute_groups_fixed, as the group loop reads it: the
\* argmin of the signs per boundary, the last entry moved from 0 to nbins.
LowerIndices(ebounds, o) ==
    LET d == diff(ebounds, o)
        found == Array([i \in 1..Len(ebounds) |->
                     argmin(Array([j \in 1..o.nbins |-> sign(d[i][j])]))])
    IN IF found[Len(found)] = 0
       THEN [found EXCEPT ![Len(found)] = o.nbins]
       ELSE found

\* The underflow group of compute_groups_fixed, if it is created.
UnderflowGroups(l, o) ==
    IF l[1] > 0
    THEN <<SpectrumEnergyGroup(0, 0, l[1] - 1, "underflow",
                               PyIndex(o.lower_bounds, 0),
                               PyIndex(o.upper_bounds, l[1] - 1)).value>>
    ELSE <<>>

\* The normal groups of compute_groups_fixed; first is the value of the
\* counter energy_group_idx when the loop starts.
NormalGroups(l, o, first) ==
    Array([index \in 1..(Len(l) - 1) |->
        SpectrumEnergyGroup(first + index - 1,
                            l[index],
                            l[index + 1] - 1,
                            "normal",
                            PyIndex(o.lower_bounds, l[index]),
                            PyIndex(o.upper_bounds, l[index + 1] - 1)).value])

\* The overflow group of compute_groups_fixed, if it is created.
OverflowGroups(l, o, energy_group_idx) ==
    LET maxbin == l[Len(l)]
    IN IF maxbin < o.nbins
       THEN <<SpectrumEnergyGroup(energy_group_idx, maxbin, o.nbins - 1,
                                  "overflow",
                                  PyIndex(o.lower_bounds, maxbin),
                                  PyIndex(o.upper_bounds, -1)).value>>
       ELSE <<>>

\* The list compute_groups_fixed stores in maker.groups.
FixedGroups(l, o) ==
    LET under == UnderflowGroups(l, o)
        normal == NormalGroups(l, o, Len(under))
    IN under \o normal \o OverflowGroups(l, o, Len(under) + Len(normal))

\* The table of groups_from_obs with every bin in group 0.
ObsTableOneGroup(o) ==
    [i \in 1..o.nbins |->
        [bin_idx |-> i - 1,
         energy_group_idx |-> 0,
         bin_type |-> "normal",
         energy_min |-> o.lower_bounds[i],
         energy_max |-> o.upper_bounds[i]]]

\* The table groups_from_obs builds: one row per fine bin.
ObsTable(o) ==
    [i \in 1..o.nbins |->
        [bin_idx |-> i - 1,
         energy_group_idx |-> i - 1,
         bin_type |-> "normal",
         energy_min |-> o.lower_bounds[i],
         energy_max |-> o.upper_bounds[i]]]

(***************************************************************************)
(* Inputs.                                                                 *)
(***************************************************************************)
\* The elements of a set of energies in ascending order.
RECURSIVE Ascending(_)
Ascending(S) ==
    IF S = {} THEN <<>>
    ELSE LET lowest == CHOOSE x \in S : \A y \in S : x <= y
         IN <<lowest>> \o Ascending(S \ {lowest})

\* The strictly increasing sequences over 0..MaxEnergy of the given lengths.
Increasing(lens) ==
    {Ascending(S) : S \in {T \in SUBSET (0..MaxEnergy) : Cardinality(T) \in lens}}

\* An observation's binning from its bin edges: contiguous fine bins.
ObsOf(edges) ==
    [lower_bounds |-> SubSeq(edges, 1, Len(edges) - 1),
     upper_bounds |-> SubSeq(edges, 2, Len(edges)),
     nbins |-> Len(edges) - 1]

\* The observation of the tests: nine bins of 1 TeV from 1 TeV to 10 TeV.
FixtureObs == ObsOf([i \in 1..10 |-> i * TeV])

\* The boundaries the tests call compute_groups_fixed with.
FixtureEbounds ==
    {<<(5 * TeV) \div 4, (9 * TeV) \div 2, (13 * TeV) \div 2>>,
     <<2 * TeV, 5 * TeV, 7 * TeV>>,
     <<-1 * TeV, 6 * TeV, 100 * TeV>>}

\* Boundaries of the tests taken together in one call: one off the bin edges
\* inside the range, one on an edge, one beyond the range.
MixedEbounds == {<<(5 * TeV) \div 4, 6 * TeV, 100 * TeV>>}

Observations == {ObsOf(e) : e \in Increasing(2..(MaxBins + 1))} \cup {FixtureObs}

EboundsInputs == Increasing(2..MaxBounds) \cup FixtureEbounds \cup MixedEbounds

NoObs == ObsOf(<<0, MeV>>)

(***************************************************************************)
(* The maker: groups_from_obs and compute_groups_fixed on one observation. *)
(***************************************************************************)
Init ==
    /\ obs \in Observations
    /\ groups = <<>>
    /\ self = <<>>
    /\ table = <<>>
    /\ call = NoCall
    /\ ret = NoReturn

groups_from_obs ==
    /\ groups' = from_total_table(ObsTable(obs)).value
    /\ call' = [op |-> "groups_from_obs"]
    /\ ret' = NoReturn
    /\ UNCHANGED <<obs, self, table>>

compute_groups_fixed(ebounds) ==
    /\ \E lower_indices \in {LowerIndices(ebounds, obs)} :
        /\ groups' = FixedGroups(lower_indices, obs)
        /\ call' = [op |-> "compute_groups_fixed", ebounds |-> ebounds,
                    lower_indices |-> lower_indices]
    /\ ret' = NoReturn
    /\ UNCHANGED <<obs, self, table>>

Next ==
    \/ groups_from_obs
    \/ \E ebounds \in EboundsInputs : compute_groups_fixed(ebounds)

Spec == Init /\ [][Next]_vars

(***************************************************************************)
(* One group: the constructor, then the group's own methods.               *)
(***************************************************************************)
\* Bin types a caller may pass: the valid ones and one that is not.
BinTypeInputs == valid_bin_types \cup {"spam"}

InitGroup ==
    /\ obs = NoObs
    /\ groups = <<>>
    /\ self = <<>>
    /\ table = <<>>
    /\ call = NoCall
    /\ ret = NoReturn

\* group = SpectrumEnergyGroup(...)
__init__(energy_group_idx, bin_idx_min, bin_idx_max, bin_type, energy_min, energy_max) ==
    /\ call.op = "none"
    /\ call' = [op |-> "__init__", bin_type |-> bin_type]
    /\ ret' = SpectrumEnergyGroup(energy_group_idx, bin_idx_min, bin_idx_max,
                                  bin_type, energy_min, energy_max)
    /\ UNCHANGED <<obs, groups, self, table>>

\* group.contains_energy(energy) on the group just constructed
group_contains_energy(energy) ==
    /\ call.op = "__init__"
    /\ ret.raised = ""
    /\ call' = [op |-> "contains_energy", group |-> ret.value, energy |-> energy]
    /\ ret' = Return(contains_energy(ret.value, energy))
    /\ UNCHANGED <<obs, groups, self, table>>

NextGroup ==
    \/ call.op = "none" /\ \E energy_group_idx \in 0..MaxGroupIdx,
          bin_idx_min \in 0..MaxBinIdx, bin_idx_max \in 0..MaxBinIdx,
          bin_type \in BinTypeInputs,
          energy_min \in 0..MaxEnergy, energy_max \in 0..MaxEnergy :
            __init__(energy_group_idx, bin_idx_min, bin_idx_max, bin_type,
                     energy_min, energy_max)
    \/ call.op = "__init__" /\ \E energy \in 0..MaxEnergy : group_contains_energy(energy)

SpecGroup == InitGroup /\ [][NextGroup]_vars

(***************************************************************************)
(* One list of groups: table round trips and lookup by energy.             *)
(***************************************************************************)
\* Bin types of the groups in the lists under test.
ListBinTypes == {"normal", "overflow"}

\* The groups of the lists under test lie on a fine binning with an edge
\* every MeV: bins bin_idx_min..bin_idx_max span the energies from the lower
\* edge of the first to the upper edge of the last.
GroupInputs ==
    {SpectrumEnergyGroup(i, a, b, t, a * MeV, (b + 1) * MeV).value :
        i \in 0..MaxGroupIdx, a \in 0..MaxBinIdx, b \in 0..MaxBinIdx,
        t \in ListBinTypes}

\* All sequences over S of length 0..n.
RECURSIVE SeqsUpTo(_, _)
SeqsUpTo(S, n) ==
    IF n = 0 THEN {<<>>}
    ELSE LET shorter == SeqsUpTo(S, n - 1)
         IN shorter \cup {Append(q, x) : q \in shorter, x \in S}

\* Energies looked up: every edge and every half step up to one bin beyond.
EnergyInputs == 0..((MaxBinIdx + 2) * MeV)

InitGroups ==
    /\ obs = NoObs
    /\ groups = <<>>
    /\ self \in SeqsUpTo(GroupInputs, MaxGroups)
    /\ table = <<>>
    /\ call = NoCall
    /\ ret = NoReturn

\* table = self.to_total_table(); table_vstack needs at least one table.
self_to_total_table ==
    /\ call.op = "none"
    /\ self # <<>>
    /\ table' = to_total_table(self)
    /\ call' = [op |-> "to_total_table"]
    /\ ret' = NoReturn
    /\ UNCHANGED <<obs, groups, self>>

\* SpectrumEnergyGroups.from_total_table(table)
call_from_total_table ==
    /\ call' = [op |-> "from_total_table"]
    /\ ret' = from_total_table(table)
    /\ UNCHANGED <<obs, groups, self, table>>

\* table = self.to_group_table()
self_to_group_table ==
    /\ call.op = "none"
    /\ table' = to_group_table(self)
    /\ call' = [op |-> "to_group_table"]
    /\ ret' = NoReturn
    /\ UNCHANGED <<obs, groups, self>>

\* SpectrumEnergyGroups.from_group_table(table)
call_from_group_table ==
    /\ call' = [op |-> "from_group_table"]
    /\ ret' = from_group_table(table)
    /\ UNCHANGED <<obs, groups, self, table>>

\* SpectrumEnergyGroup(**self[pos].to_dict())
group_from_to_dict(pos) ==
    /\ call.op = "none"
    /\ call' = [op |-> "to_dict", pos |-> pos]
    /\ ret' = from_dict(to_dict(PyIndex(self, pos)))
    /\ UNCHANGED <<obs, groups, self, table>>

\* self.find_list_idx(energy)
self_find_list_idx(energy) ==
    /\ call.op = "none"
    /\ call' = [op |-> "find_list_idx", energy |-> energy]
    /\ ret' = find_list_idx(self, energy)
    /\ UNCHANGED <<obs, groups, self, table>>

NextGroups ==
    \/ self_to_total_table
    \/ call.op = "to_total_table" /\ call_from_total_table
    \/ self_to_group_table
    \/ call.op = "to_group_table" /\ call_from_group_table
    \/ \E pos \in 0..(Len(self) - 1) : group_from_to_dict(pos)

SpecGroups == InitGroups /\ [][NextGroups]_vars

(***************************************************************************)
(* One list of groups: lookup by energy.                                   *)
(***************************************************************************)
NextLookup == \E energy \in EnergyInputs : self_find_list_idx(energy)

SpecLookup == InitGroups /\ [][NextLookup]_vars

(***************************************************************************)
(* from_total_table on a table of the caller.                              *)
(***************************************************************************)
\* Row number n (0-based bin n) of a caller's total table: the bin's own
\* edges, and the group index and bin type the caller wrote.
RowInput(n, energy_group_idx, bin_type) ==
    [bin_idx |-> n,
     energy_group_idx |-> energy_group_idx,
     bin_type |-> bin_type,
     energy_min |-> n * MeV,
     energy_max |-> (n + 1) * MeV]

\* The caller's tables of 0..n rows.
RECURSIVE TableInputs(_)
TableInputs(n) ==
    IF n = 0 THEN {<<>>}
    ELSE LET shorter == TableInputs(n - 1)
         IN shorter \cup
            {Append(t, RowInput(Len(t), i, b)) :
                t \in {q \in shorter : Len(q) = n - 1},
                i \in 0..MaxGroupIdx, b \in BinTypeInputs}

InitTable ==
    /\ obs = NoObs
    /\ groups = <<>>
    /\ self = <<>>
    /\ table \in TableInputs(MaxRows)
    /\ call = NoCall
    /\ ret = NoReturn

NextTable == call.op = "none" /\ call_from_total_table

SpecTable == InitTable /\ [][NextTable]_vars

(***************************************************************************)
(* Properties of the maker (specification Spec).                           *)
(***************************************************************************)
\* i is the 0-based index of a fine bin of the observation.
IsBin(i) == i \in 0..(obs.nbins - 1)

\* C1: compute_groups_fixed stores, in this order, an underflow group
\* [0, l[0]-1] iff l[0] > 0, the k-1 normal groups [l[i], l[i+1]-1] and an
\* overflow group [l[k-1], nbins-1] iff l[k-1] < nbins; the groups are
\* numbered 0,1,2,... and each spans the energies from the lower edge of its
\* first fine bin to the upper edge of its last fine bin.
C1_FixedGroupsLayout ==
    call.op = "compute_groups_fixed" =>
        LET l == call.lower_indices
            k == Len(l)
            u == IF l[1] > 0 THEN 1 ELSE 0
            v == IF l[k] < obs.nbins THEN 1 ELSE 0
        IN /\ Len(groups) = u + (k - 1) + v
           /\ u = 1 => /\ groups[1].bin_type = "underflow"
                       /\ groups[1].bin_idx_min = 0
                       /\ groups[1].bin_idx_max = l[1] - 1
           /\ \A i \in 1..(k - 1) :
                /\ groups[u + i].bin_type = "normal"
                /\ groups[u + i].bin_idx_min = l[i]
                /\ groups[u + i].bin_idx_max = l[i + 1] - 1
           /\ v = 1 => /\ groups[u + k].bin_type = "overflow"
                       /\ groups[u + k].bin_idx_min = l[k]
                       /\ groups[u + k].bin_idx_max = obs.nbins - 1
           /\ \A p \in 1..Len(groups) :
                /\ groups[p].energy_group_idx = p - 1
                /\ IsBin(groups[p].bin_idx_min)
                /\ groups[p].energy_min = obs.lower_bounds[groups[p].bin_idx_min + 1]
                /\ IsBin(groups[p].bin_idx_max)
                /\ groups[p].energy_max = obs.upper_bounds[groups[p].bin_idx_max + 1]

\* The boundary b lies inside the observation's energy range.
InsideObs(b) ==
    /\ obs.lower_bounds[1] <= b
    /\ b < obs.upper_bounds[obs.nbins]

\* 0-based index of the fine bin with the largest lower edge not above b.
FromBelow(b) ==
    (CHOOSE j \in 1..obs.nbins :
        /\ obs.lower_bounds[j] <= b
        /\ \A m \in 1..obs.nbins :
             obs.lower_bounds[m] <= b => obs.lower_bounds[m] <= obs.lower_bounds[j]) - 1

\* C2 as stated: a boundary inside the observation's range is located at the
\* fine bin whose lower edge is the closest from below, and the index of the
\* final boundary becomes the last valid bin when it would be bin 0.
C2_LocatedFromBelow ==
    call.op = "compute_groups_fixed" =>
        LET l == call.lower_indices
            k == Len(l)
        IN \A i \in 1..k :
             InsideObs(call.ebounds[i]) =>
                IF i = k /\ FromBelow(call.ebounds[i]) = 0
                THEN l[i] = obs.nbins - 1
                ELSE l[i] = FromBelow(call.ebounds[i])

\* The lower edge of some fine bin is more than b - 1 MeV.
EdgeAbove(b) == \E j \in 1..obs.nbins : obs.lower_bounds[j] > b - MeV

\* 0-based index of the first fine bin whose lower edge is more than
\* b - 1 MeV; without such a bin, the last bin if its lower edge is exactly
\* b - 1 MeV and bin 0 otherwise.
FromAbove(b) ==
    IF EdgeAbove(b)
    THEN (CHOOSE j \in 1..obs.nbins :
            /\ obs.lower_bounds[j] > b - MeV
            /\ \A m \in 1..(j - 1) : obs.lower_bounds[m] <= b - MeV) - 1
    ELSE IF obs.lower_bounds[obs.nbins] = b - MeV THEN obs.nbins - 1 ELSE 0

\* C2 (amended): every boundary b is located at the first fine bin whose
\* lower edge is more than b - 1 MeV (the closest edge from above); with no
\* such bin it is located at the last bin if that bin's lower edge is
\* b - 1 MeV and at bin 0 otherwise; the index of the final boundary becomes
\* nbins, one past the last bin, when it would be bin 0.
C2_LocatedFromAbove ==
    call.op = "compute_groups_fixed" =>
        LET l == call.lower_indices
            k == Len(l)
        IN \A i \in 1..k :
             IF i = k /\ FromAbove(call.ebounds[i]) = 0
             THEN l[i] = obs.nbins
             ELSE l[i] = FromAbove(call.ebounds[i])

\* C2 witness: a boundary strictly between two lower edges was located at the
\* upper one, and the final boundary was moved from bin 0 to nbins.
C2_Witness ==
    /\ call.op = "compute_groups_fixed"
    /\ call.lower_indices[Len(call.lower_indices)] = obs.nbins
    /\ \E i \in 1..(Len(call.ebounds) - 1) :
         /\ call.lower_indices[i] >= 1
         /\ obs.lower_bounds[call.lower_indices[i]] < call.ebounds[i]
         /\ call.ebounds[i] < obs.lower_bounds[call.lower_indices[i] + 1]

\* C3: every group the maker holds has bin_idx_min <= bin_idx_max and
\* energy_min < energy_max.
C3_GroupInvariant ==
    \A p \in 1..Len(groups) :
        /\ groups[p].bin_idx_min <= groups[p].bin_idx_max
        /\ groups[p].energy_min < groups[p].energy_max

\* C8: groups_from_obs stores one group per fine bin: the group at
\* position i is numbered i, holds bin i alone, is normal and spans the
\* bin's edges.
C8_GroupsFromObs ==
    call.op = "groups_from_obs" =>
        /\ Len(groups) = obs.nbins
        /\ \A i \in 1..Len(groups) :
             /\ groups[i].energy_group_idx = i - 1
             /\ groups[i].bin_idx_min = i - 1
             /\ groups[i].bin_idx_max = i - 1
             /\ groups[i].bin_type = "normal"
             /\ groups[i].energy_min = obs.lower_bounds[i]
             /\ groups[i].energy_max = obs.upper_bounds[i]

\* C8 witness: groups_from_obs has run on an observation of several bins.
C8_Witness ==
    /\ call.op = "groups_from_obs"
    /\ obs.nbins >= 2
    /\ Len(groups) = obs.nbins

(***************************************************************************)
(* Properties of one group (specification SpecGroup).                      *)
(***************************************************************************)
\* C7: contains_energy(e) is true exactly when energy_min <= e < energy_max.
C7_ContainsHalfOpen ==
    call.op = "contains_energy" =>
        /\ ret.raised = ""
        /\ ret.value = TRUE <=> /\ call.group.energy_min <= call.energy
                                /\ call.energy < call.group.energy_max
        /\ call.energy = call.group.energy_min
             /\ call.group.energy_min < call.group.energy_max => ret.value = TRUE
        /\ call.energy = call.group.energy_max => ret.value = FALSE

\* C7 witness: the energy asked for is the upper edge of a group with
\* energy_min < energy_max, and the answer is no.
C7_Witness ==
    /\ call.op = "contains_energy"
    /\ call.group.energy_min < call.group.energy_max
    /\ call.energy = call.group.energy_max
    /\ ret.value = FALSE

\* C9: the constructor raises ValueError exactly when bin_type is none of
\* normal, underflow, overflow; a group it returns has the bin_type given.
C9_ConstructorValidates ==
    call.op = "__init__" =>
        /\ ret.raised = "ValueError"
             <=> call.bin_type \notin {"normal", "underflow", "overflow"}
        /\ ret.raised \in {"", "ValueError"}
        /\ ret.raised = "" => ret.value.bin_type = call.bin_type

\* C9 witness: a constructor call with an invalid bin type has failed.
C9_Witness ==
    /\ call.op = "__init__"
    /\ call.bin_type = "spam"
    /\ ret.raised = "ValueError"

(***************************************************************************)
(* Properties of a list of groups (specifications SpecGroups, SpecLookup). *)
(***************************************************************************)
\* The precondition of C4: a non-empty list whose groups have
\* bin_idx_min <= bin_idx_max and energy_min < energy_max (the bin type of a
\* constructed group is valid).
ValidList(gs) ==
    /\ gs # <<>>
    /\ \A i \in 1..Len(gs) :
         /\ gs[i].bin_type \in {"normal", "underflow", "overflow"}
         /\ gs[i].bin_idx_min <= gs[i].bin_idx_max
         /\ gs[i].energy_min < gs[i].energy_max

\* The call returned a list equal to self: as many groups, in the same order,
\* all six fields equal.
ReturnedSelf ==
    /\ ret.raised = ""
    /\ Len(ret.value) = Len(self)
    /\ \A i \in 1..Len(self) :
         /\ ret.value[i].energy_group_idx = self[i].energy_group_idx
         /\ ret.value[i].bin_idx_min = self[i].bin_idx_min
         /\ ret.value[i].bin_idx_max = self[i].bin_idx_max
         /\ ret.value[i].bin_type = self[i].bin_type
         /\ ret.value[i].energy_min = self[i].energy_min
         /\ ret.value[i].energy_max = self[i].energy_max
         /\ __eq__(ret.value[i], self[i])

\* C4 as stated: from_total_table(self.to_total_table()) equals self for
\* every valid list, whatever the values and order of energy_group_idx.
C4_TotalRoundTripAnyOrder ==
    (call.op = "from_total_table" /\ ValidList(self)) => ReturnedSelf

\* The energy_group_idx values grow strictly along the list.
IdxIncreasing(gs) ==
    \A i \in 1..(Len(gs) - 1) : gs[i].energy_group_idx < gs[i + 1].energy_group_idx

\* C4 (amended): from_total_table(self.to_total_table()) equals self for
\* every valid list whose energy_group_idx values are strictly increasing in
\* list order.
C4_TotalRoundTripIncreasing ==
    (call.op = "from_total_table" /\ ValidList(self) /\ IdxIncreasing(self))
        => ReturnedSelf

\* C4 witness: the round trip of a valid list of several groups with
\* increasing energy_group_idx, one of them of several bins, gave the list.
C4_Witness ==
    /\ call.op = "from_total_table"
    /\ ValidList(self)
    /\ IdxIncreasing(self)
    /\ Len(self) >= 2
    /\ \E i \in 1..Len(self) : self[i].bin_idx_min < self[i].bin_idx_max
    /\ Len(table) > Len(self)
    /\ ReturnedSelf

\* C5: from_group_table(self.to_group_table()) equals self for any list, the
\* rows in list order, and SpectrumEnergyGroup(**g.to_dict()) equals g for a
\* single group g.
C5_GroupRoundTrip ==
    /\ call.op = "from_group_table" => ReturnedSelf
    /\ call.op = "to_group_table" =>
         /\ TableLen(table) = Len(self)
         /\ \A r \in 1..Len(self) :
              \A c \in 1..Len(fields) :
                 /\ table.colnames[c] = fields[c]
                 /\ table.columns[c][r] = self[r][fields[c]]
    /\ call.op = "to_dict" =>
         /\ ret.raised = ""
         /\ __eq__(ret.value, PyIndex(self, call.pos))
         /\ \A c \in 1..Len(fields) :
              ret.value[fields[c]] = PyIndex(self, call.pos)[fields[c]]

\* C5 witness: the group-table round trip of a list of two different groups,
\* one of them with bin_idx_min # bin_idx_max, gave the list.
C5_Witness ==
    /\ call.op = "from_group_table"
    /\ Len(self) >= 2
    /\ self[1] # self[2]
    /\ self[1].bin_idx_min # self[1].bin_idx_max
    /\ ReturnedSelf

\* The group at 1-based position i holds the energy.
Holds(i, energy) ==
    /\ self[i].energy_min <= energy
    /\ energy < self[i].energy_max

\* find_list_idx returned the smallest position whose group holds the energy
\* and raised IndexError exactly when no group holds it.
FirstHolderOrIndexError ==
    /\ ret.raised = "" =>
         /\ ret.value + 1 \in 1..Len(self)
         /\ Holds(ret.value + 1, call.energy)
         /\ \A j \in 1..ret.value : ~Holds(j, call.energy)
    /\ ret.raised # "" =>
         /\ ret.raised = "IndexError"
         /\ \A j \in 1..Len(self) : ~Holds(j, call.energy)

\* It raised for an energy below the first group's energy_min or at or above
\* the last group's energy_max, and gave an edge shared by two adjacent
\* groups to the upper one.
OutsideRaisesEdgeGoesUp ==
    /\ (self # <<>> /\ call.energy < self[1].energy_min)
          => ret.raised = "IndexError"
    /\ (self # <<>> /\ call.energy >= self[Len(self)].energy_max)
          => ret.raised = "IndexError"
    /\ \A i \in 1..(Len(self) - 1) :
          (self[i].energy_max = call.energy /\ self[i + 1].energy_min = call.energy)
             => ret = Return(i)

\* Every group of the list has energy_min < energy_max.
NonEmptyRanges(gs) == \A i \in 1..Len(gs) : gs[i].energy_min < gs[i].energy_max

\* C6 as stated, for any list of groups with energy_min < energy_max, in
\* whatever order.
C6_FindListIdxAnyList ==
    (call.op = "find_list_idx" /\ NonEmptyRanges(self)) =>
        FirstHolderOrIndexError /\ OutsideRaisesEdgeGoesUp

\* The groups are in ascending energy order: each has energy_min <
\* energy_max and starts at or above the end of the one before.
EnergyOrdered(gs) ==
    /\ \A i \in 1..Len(gs) : gs[i].energy_min < gs[i].energy_max
    /\ \A i \in 1..(Len(gs) - 1) : gs[i].energy_max <= gs[i + 1].energy_min

\* C6 (amended): find_list_idx returns the smallest position whose group
\* holds the energy and raises IndexError exactly when none does; when the
\* groups are in ascending energy order it raises below the first group's
\* energy_min and at or above the last group's energy_max, and an edge shared
\* by two adjacent groups goes to the upper group.
C6_FindListIdxOrdered ==
    call.op = "find_list_idx" =>
        /\ FirstHolderOrIndexError
        /\ EnergyOrdered(self) => OutsideRaisesEdgeGoesUp

\* C6 witness: in an ordered list of two adjacent groups the shared edge was
\* looked up and the upper group was returned.
C6_Witness ==
    /\ call.op = "find_list_idx"
    /\ Len(self) = 2
    /\ EnergyOrdered(self)
    /\ self[1].energy_max = call.energy
    /\ self[2].energy_min = call.energy
    /\ ret = Return(1)

(***************************************************************************)
(* Properties of from_total_table on a caller's table (SpecTable).         *)
(***************************************************************************)
\* Some energy_group_idx has rows of more than one bin type.
MixedTypes(t) ==
    \E i, j \in 1..Len(t) :
        /\ t[i].energy_group_idx = t[j].energy_group_idx
        /\ t[i].bin_type # t[j].bin_type

\* C10: from_total_table raises ValueError whenever the rows of one
\* energy_group_idx carry more than one bin type, and does not raise the
\* inconsistency error when every energy_group_idx has a single bin type.
C10_InconsistentBinType ==
    call.op = "from_total_table" =>
        /\ MixedTypes(table) => ret.raised = "ValueError"
        /\ ~MixedTypes(table) =>
             ~(/\ ret.raised = "ValueError"
               /\ ret.message = "Inconsistent bin_type within group.")

\* C10 witness: a table whose rows of one group mix two valid bin types was
\* rejected.
C10_Witness ==
    /\ call.op = "from_total_table"
    /\ \E i, j \in 1..Len(table) :
         /\ table[i].energy_group_idx = table[j].energy_group_idx
         /\ table[i].bin_type = "normal"
         /\ table[j].bin_type = "overflow"
    /\ ret.raised = "ValueError"

(***************************************************************************)
(* Tiling of the fine bins by a fixed grouping (specification Spec).       *)
(***************************************************************************)
\* C11: after compute_groups_fixed the groups tile the observation's fine
\* bins: every bin index of every group lies in 0..nbins-1, the first group
\* starts at bin 0, the last group ends at bin nbins-1, and each following
\* group starts one bin after the end of the group before it.
C11_GroupsTileBins ==
    call.op = "compute_groups_fixed" =>
        /\ \A p \in 1..Len(groups) :
             /\ IsBin(groups[p].bin_idx_min)
             /\ IsBin(groups[p].bin_idx_max)
        /\ groups[1].bin_idx_min = 0
        /\ groups[Len(groups)].bin_idx_max = obs.nbins - 1
        /\ \A p \in 1..(Len(groups) - 1) :
             groups[p + 1].bin_idx_min = groups[p].bin_idx_max + 1
====
